---- MODULE Spec2Model ----
(***************************************************************************)
(* The OpenAI-compatible chat-completions facade of app/api/routes.py and  *)
(* the model client factory of app/core/config.py, as a state machine;     *)
(* and merge_arguments of scripts/utils.py and scripts/docs.py.            *)
(*                                                                         *)
(* Each request slot r runs one HTTP request at a time.  An action is one  *)
(* uninterrupted run of the event loop: from one suspension point (await,  *)
(* yield) of the handler or of the stream generator to the next.           *)
(*                                                                         *)
(* Conventions: an Optional value is <<>> (None) or <<x>>; a JSON value of *)
(* a request body is a tagged tuple (<<"missing">>, <<"null">>,            *)
(* <<"str", s>>, <<"num", s>>, <<"bool", b>>, <<"list", seq>>); a response *)
(* text is a sequence of one-character strings.                            *)
(***************************************************************************)
EXTENDS Integers, Sequences, FiniteSets, TLC

\* ---------------------------------------------------------------- bounds
NumReqs == 2
MaxMsgs == 2
MaxLen == 3
MaxDefaultArgs == 3
MaxUserArgs == 2

Reqs == 1..NumReqs

\* ------------------------------------------------------- Optional values
None == <<>>
Some(x) == <<x>>
\* (mutant) only None counts as absent: `x if x is not None else d`.
OrElseGiven(o, d) == IF o = <<>> THEN d ELSE o[1]

OrElse(o, d) == IF o = <<>> \/ o[1] = "" THEN d ELSE o[1]

\* ------------------------------------------------------------ JSON values
Missing == <<"missing">>
JNull == <<"null">>
JStr(s) == <<"str", s>>
JNum(s) == <<"num", s>>
JBool(b) == <<"bool", b>>
JList(s) == <<"list", s>>
Tag(v) == v[1]

\* ------------------------------------------------------------- Settings
ApiKey == "test-key-123"
DefaultBaseUrl == "https://openrouter.ai/api/v1"
DefaultModel == "anthropic/claude-3.5-sonnet"
EnvModel == "deepseek/deepseek-v3.1-terminus"
ServiceLabel == "langchain-agent-hub"
CompletionId == "chatcmpl-123456789"
MissingKeyMessage == "OPENROUTER_API_KEY is not set in the environment"

SettingsValues ==
    [openrouter_api_key : {None, Some(ApiKey)},
     openrouter_base_url : {DefaultBaseUrl},
     default_model : {DefaultModel, EnvModel}]

\* ----------------------------------------------------------------- texts
Letters == {"a", "b"}
Whitespace == {" ", "\n"}
Chars == Letters \cup Whitespace

SeqsUpTo(S, n) == UNION {[1..k -> S] : k \in 0..n}

Texts == SeqsUpTo(Chars, MaxLen)
\* str(e) of what the upstream call can raise: any text, the factory's own
\* message included.
ErrMsgs == {"OpenRouter API error", "", MissingKeyMessage}

\* str.split() with no separator: the maximal runs of non-whitespace
\* characters, in order; no empty word.
RECURSIVE SplitFrom(_, _, _, _)
SplitFrom(s, k, cur, acc) ==
    IF k > Len(s)
    THEN IF cur = <<>> THEN acc ELSE Append(acc, cur)
    ELSE IF s[k] \in Whitespace
         THEN SplitFrom(s, k + 1, <<>>, IF cur = <<>> THEN acc ELSE Append(acc, cur))
         ELSE SplitFrom(s, k + 1, Append(cur, s[k]), acc)

\* (mutant) str.split(" "): cut at every single space, empty words kept.
RECURSIVE SplitOnSpaceFrom(_, _, _, _)
SplitOnSpaceFrom(s, k, cur, acc) ==
    IF k > Len(s)
    THEN Append(acc, cur)
    ELSE IF s[k] = " "
         THEN SplitOnSpaceFrom(s, k + 1, <<>>, Append(acc, cur))
         ELSE SplitOnSpaceFrom(s, k + 1, Append(cur, s[k]), acc)

SplitOnSpace(s) == SplitOnSpaceFrom(s, 1, <<>>, <<>>)

Split(s) == SplitFrom(s, 1, <<>>, <<>>)

\* ------------------------------------------------------ request bodies
ValidRawMsgs ==
    {[role |-> JStr("user"), content |-> JStr("hi")],
     [role |-> JStr("user"), content |-> JStr("")],
     [role |-> JStr("assistant"), content |-> JStr("ok")],
     [role |-> JStr("system"), content |-> JStr("sys")],
     [role |-> JStr("tool"), content |-> JStr("hi")]}

InvalidRawMsgs ==
    {[role |-> JStr("user"), content |-> Missing],
     [role |-> JStr("user"), content |-> JNum("5")],
     [role |-> Missing, content |-> JStr("hi")]}

RawMsgs == ValidRawMsgs \cup InvalidRawMsgs

ModelVals == {Missing, JStr(""), JStr(EnvModel)}
StreamVals == {Missing, JBool(TRUE), JBool(FALSE)}
ParamVals == {<<Missing, Missing>>, <<JNum("0.5"), JNum("100")>>}

WellTypedBodies ==
    {[json |-> TRUE, messages |-> JList(ms), model |-> m, stream |-> s,
      temperature |-> p[1], max_tokens |-> p[2]] :
        ms \in SeqsUpTo(RawMsgs, MaxMsgs), m \in ModelVals,
        s \in StreamVals, p \in ParamVals}

BaseBody ==
    [json |-> TRUE,
     messages |-> JList(<<[role |-> JStr("user"), content |-> JStr("hi")]>>),
     model |-> Missing, stream |-> Missing,
     temperature |-> Missing, max_tokens |-> Missing]

IllTypedBodies ==
    {[BaseBody EXCEPT !.json = FALSE],
     [BaseBody EXCEPT !.messages = Missing],
     [BaseBody EXCEPT !.messages = JStr("hi")],
     [BaseBody EXCEPT !.model = JNum("5")],
     [BaseBody EXCEPT !.stream = JStr("maybe")],
     [BaseBody EXCEPT !.stream = JNull],
     [BaseBody EXCEPT !.stream = JStr("maybe"), !.model = JStr(EnvModel)],
     [BaseBody EXCEPT !.temperature = JStr("hot")],
     [BaseBody EXCEPT !.max_tokens = JStr("many")]}

Bodies == WellTypedBodies \cup IllTypedBodies

\* One conversation, every combination of model, stream and sampling fields.
SampleBodies ==
    {b \in WellTypedBodies : b.messages = BaseBody.messages} \cup IllTypedBodies

SampleTexts == {<<>>, <<"a">>, <<" ", "b", "\n", "a">>}

Endpoints == {"chat", "models", "health", "root"}

\* ------------------------------------------------ request schema (pydantic)
\* (mutant) content is optional in ChatMessage.
ValidMessageContentOptional(m) ==
    Tag(m.role) = "str" /\ Tag(m.content) \in {"str", "missing"}

ValidMessage(m) == Tag(m.role) = "str" /\ Tag(m.content) = "str"

\* (mutant) the schema requires at least one message.
ValidBodyNonEmpty(b) ==
    /\ b.json
    /\ Tag(b.messages) = "list"
    /\ b.messages[2] # <<>>
    /\ \A k \in 1..Len(b.messages[2]) : ValidMessage(b.messages[2][k])
    /\ Tag(b.model) \in {"missing", "null", "str"}
    /\ Tag(b.stream) \in {"missing", "bool"}
    /\ Tag(b.temperature) \in {"missing", "null", "num"}
    /\ Tag(b.max_tokens) \in {"missing", "null", "num"}

\* ChatRequest: messages is required, a list of ChatMessage (role and content
\* required strings); model, temperature and max_tokens are optional; stream
\* is a boolean with a default.
ValidBody(b) ==
    /\ b.json
    /\ Tag(b.messages) = "list"
    /\ \A k \in 1..Len(b.messages[2]) : ValidMessage(b.messages[2][k])
    /\ Tag(b.model) \in {"missing", "null", "str"}
    /\ Tag(b.stream) \in {"missing", "bool"}
    /\ Tag(b.temperature) \in {"missing", "null", "num"}
    /\ Tag(b.max_tokens) \in {"missing", "null", "num"}

\* The value a string field was given ("" when it was given none).
StrField(v) == IF Len(v) > 1 THEN v[2] ELSE ""

ChatMessage(m) == [role |-> StrField(m.role), content |-> StrField(m.content)]

ChatRequest(b) ==
    [messages |-> [k \in 1..Len(b.messages[2]) |-> ChatMessage(b.messages[2][k])],
     model |-> IF Tag(b.model) = "str" THEN Some(b.model[2]) ELSE None,
     stream |-> IF Tag(b.stream) = "bool" THEN b.stream[2] ELSE FALSE,
     temperature |-> IF Tag(b.temperature) = "num" THEN Some(b.temperature[2])
                     ELSE IF Tag(b.temperature) = "missing" THEN Some("0.7")
                     ELSE None,
     max_tokens |-> IF Tag(b.max_tokens) = "num" THEN Some(b.max_tokens[2]) ELSE None]

NoRequest ==
    [messages |-> <<>>, model |-> None, stream |-> FALSE,
     temperature |-> None, max_tokens |-> None]

NoBody ==
    [json |-> FALSE, messages |-> Missing, model |-> Missing, stream |-> Missing,
     temperature |-> Missing, max_tokens |-> Missing]

\* --------------------------------------------- chat_completions: messages
HumanMessage(c) == [type |-> "Human", content |-> c]
AIMessage(c) == [type |-> "AI", content |-> c]
SystemMessage(c) == [type |-> "System", content |-> c]

\* The conversion loop: one pass over request.messages in order, appending
\* a message for a recognized role and nothing for any other role.
RECURSIVE ConvertFrom(_, _, _)
ConvertFrom(msgs, k, acc) ==
    IF k > Len(msgs) THEN acc
    ELSE LET msg == msgs[k] IN
         IF msg.role = "user"
         THEN ConvertFrom(msgs, k + 1, Append(acc, HumanMessage(msg.content)))
         ELSE IF msg.role = "assistant"
         THEN ConvertFrom(msgs, k + 1, Append(acc, AIMessage(msg.content)))
         ELSE IF msg.role = "system"
         THEN ConvertFrom(msgs, k + 1, Append(acc, SystemMessage(msg.content)))
         ELSE ConvertFrom(msgs, k + 1, acc)

\* (mutant) each converted message is inserted at the front of the list.
RECURSIVE ConvertPrepending(_, _, _)
ConvertPrepending(msgs, k, acc) ==
    IF k > Len(msgs) THEN acc
    ELSE LET msg == msgs[k] IN
         IF msg.role = "user"
         THEN ConvertPrepending(msgs, k + 1, <<HumanMessage(msg.content)>> \o acc)
         ELSE IF msg.role = "assistant"
         THEN ConvertPrepending(msgs, k + 1, <<AIMessage(msg.content)>> \o acc)
         ELSE IF msg.role = "system"
         THEN ConvertPrepending(msgs, k + 1, <<SystemMessage(msg.content)>> \o acc)
         ELSE ConvertPrepending(msgs, k + 1, acc)

ConvertMessagesPrepending(msgs) == ConvertPrepending(msgs, 1, <<>>)

\* (mutant) the last branch is a plain else: any other role is sent as System.
RECURSIVE ConvertElseSystem(_, _, _)
ConvertElseSystem(msgs, k, acc) ==
    IF k > Len(msgs) THEN acc
    ELSE LET msg == msgs[k] IN
         IF msg.role = "user"
         THEN ConvertElseSystem(msgs, k + 1, Append(acc, HumanMessage(msg.content)))
         ELSE IF msg.role = "assistant"
         THEN ConvertElseSystem(msgs, k + 1, Append(acc, AIMessage(msg.content)))
         ELSE ConvertElseSystem(msgs, k + 1, Append(acc, SystemMessage(msg.content)))

ConvertMessagesElseSystem(msgs) == ConvertElseSystem(msgs, 1, <<>>)

ConvertMessages(msgs) == ConvertFrom(msgs, 1, <<>>)

\* ------------------------------------------------------------- get_llm
NoHandle == [base_url |-> "", api_key |-> "", model |-> "", temperature |-> ""]

ChatOpenAI(base_url, api_key, model, temperature) ==
    [base_url |-> base_url, api_key |-> api_key, model |-> model,
     temperature |-> temperature]

\* (mutant) no check of the credential: the handle is built with what is there.
GetLlmUnchecked(s, model_name) ==
    [raised |-> FALSE, message |-> "",
     handle |-> ChatOpenAI(s.openrouter_base_url,
                           IF s.openrouter_api_key = None THEN ""
                           ELSE s.openrouter_api_key[1],
                           OrElse(model_name, s.default_model), "0.7")]

\* get_llm(model_name): raises ValueError without a credential, else a new
\* handle for `model_name or settings.default_model`.
GetLlm(s, model_name) ==
    IF s.openrouter_api_key = None
    THEN [raised |-> TRUE, message |-> MissingKeyMessage, handle |-> NoHandle]
    ELSE [raised |-> FALSE, message |-> "",
          handle |-> ChatOpenAI(s.openrouter_base_url, s.openrouter_api_key[1],
                                OrElse(model_name, s.default_model), "0.7")]

\* (mutant) without a request model the label is the shipped default model.
ModelLabelDefault(req) == OrElse(req.model, DefaultModel)

ModelLabel(req) == OrElse(req.model, ServiceLabel)

\* ------------------------------------------------------------ responses
NoResponse ==
    [status |-> 0, media_type |-> "", detail |-> "", completion |-> None,
     static |-> None]

\* ChatResponse(id, model, choices): object defaults to "chat.completion".
ChatResponse(model, content) ==
    [id |-> CompletionId, object |-> "chat.completion", model |-> model,
     choices |-> <<[index |-> 0,
                    message |-> [role |-> "assistant", content |-> content],
                    finish_reason |-> "stop"]>>]

\* (mutant) the content is stripped of trailing whitespace before it is returned.
CompletionResponseStripped(model, content) ==
    [status |-> 200, media_type |-> "application/json", detail |-> "",
     completion |->
         Some(ChatResponse(model,
                 IF content # <<>> /\ content[Len(content)] \in Whitespace
                 THEN SubSeq(content, 1, Len(content) - 1) ELSE content)),
     static |-> None]

CompletionResponse(model, content) ==
    [status |-> 200, media_type |-> "application/json", detail |-> "",
     completion |-> Some(ChatResponse(model, content)), static |-> None]

\* (mutant) the detail is a fixed text instead of str(e).
HTTPExceptionGeneric(status_code, detail) ==
    [status |-> status_code, media_type |-> "application/json",
     detail |-> "Internal Server Error", completion |-> None, static |-> None]

\* (mutant) the missing credential is answered 503 instead of 500.
HTTPExceptionUnavailable(status_code, detail) ==
    [status |-> IF detail = MissingKeyMessage THEN 503 ELSE status_code,
     media_type |-> "application/json", detail |-> detail,
     completion |-> None, static |-> None]

\* raise HTTPException(status_code=500, detail=str(e))
HTTPException(status_code, detail) ==
    [status |-> status_code, media_type |-> "application/json", detail |-> detail,
     completion |-> None, static |-> None]

\* The schema layer's answer to a body that is not a ChatRequest.
ValidationError ==
    [status |-> 422, media_type |-> "application/json",
     detail |-> "validation error", completion |-> None, static |-> None]

\* StreamingResponse(generate(), media_type="text/plain")
StreamingResponse ==
    [status |-> 200, media_type |-> "text/plain", detail |-> "",
     completion |-> None, static |-> None]

\* A handler that returns a dict: 200 with the dict as the JSON body.
StaticResponse(body) ==
    [status |-> 200, media_type |-> "application/json", detail |-> "",
     completion |-> None, static |-> Some(body)]

\* --------------------------------------------------------------- frames
NoError == [message |-> "", type |-> ""]

Chunk(model_name, delta, finish_reason) ==
    [kind |-> "chunk", id |-> CompletionId, object |-> "chat.completion.chunk",
     model |-> model_name,
     choices |-> <<[index |-> 0, delta |-> delta, finish_reason |-> finish_reason]>>,
     error |-> NoError]

\* (mutant) every fragment chunk carries finish_reason "stop".
FragmentChunkStop(model_name, word) == Chunk(model_name, Some(Append(word, " ")), Some("stop"))

\* delta {"content": word + " "}, finish_reason None
FragmentChunk(model_name, word) == Chunk(model_name, Some(Append(word, " ")), None)

\* (mutant) the final chunk does not carry finish_reason "stop".
FinalChunkUnfinished(model_name) == Chunk(model_name, None, None)

\* delta {}, finish_reason "stop"
FinalChunk(model_name) == Chunk(model_name, None, Some("stop"))

\* "data: [DONE]\n\n"
DoneFrame ==
    [kind |-> "done", id |-> "", object |-> "", model |-> "", choices |-> <<>>,
     error |-> NoError]

\* (mutant) the error event carries a fixed text instead of str(e).
ErrorChunkGeneric(message) ==
    [kind |-> "error", id |-> "", object |-> "", model |-> "", choices |-> <<>>,
     error |-> [message |-> "Internal Server Error", type |-> "error"]]

\* {"error": {"message": str(e), "type": "error"}}
ErrorChunk(message) ==
    [kind |-> "error", id |-> "", object |-> "", model |-> "", choices |-> <<>>,
     error |-> [message |-> message, type |-> "error"]]

\* ---------------------------------------------------------------- state
VARIABLES
    settings,            \* the process-wide Settings object
    pc,                  \* where each request is
    endpoint,            \* the path each request was sent to
    raw,                 \* the body as sent
    request,             \* the ChatRequest the schema layer built
    langchain_messages,  \* the converted messages
    llm,                 \* the handle get_llm returned
    factory_calls,       \* calls of get_llm made for the request
    upstream_calls,      \* the argument of every llm.ainvoke of the request
    outcome,             \* what the upstream call did: <<>>, <<"ok", text>>, <<"raise", msg>>
    resp,                \* the HTTP response (status line and JSON body)
    frames,              \* the frames the stream generator has yielded
    words,               \* response.content.split()
    word_index           \* the generator's position in words

vars ==
    <<settings, pc, endpoint, raw, request, langchain_messages, llm, factory_calls,
      upstream_calls, outcome, resp, frames, words, word_index>>

StreamingPcs ==
    {"stream_started", "gen_awaiting", "yield_fragment", "sleeping", "yield_final",
     "yield_done", "yield_error"}

InFlight == {r \in Reqs : pc[r] # "idle"}

\* The helper scripts are programs of their own: the argument lists one run
\* of a script merges, and what each copy of merge_arguments returned.
VARIABLES
    default_args,        \* the script's own arguments
    user_args,           \* the arguments given on the command line
    merged,              \* what scripts/utils.py merge_arguments returned
    docs_merged          \* what scripts/docs.py merge_arguments returned

script_vars == <<default_args, user_args, merged, docs_merged>>

\* No script runs.
ScriptIdle ==
    /\ default_args = <<>>
    /\ user_args = <<>>
    /\ merged = None
    /\ docs_merged = None

ServiceInit ==
    /\ settings \in SettingsValues
    /\ pc = [r \in Reqs |-> "idle"]
    /\ endpoint = [r \in Reqs |-> ""]
    /\ raw = [r \in Reqs |-> NoBody]
    /\ request = [r \in Reqs |-> NoRequest]
    /\ langchain_messages = [r \in Reqs |-> <<>>]
    /\ llm = [r \in Reqs |-> NoHandle]
    /\ factory_calls = [r \in Reqs |-> 0]
    /\ upstream_calls = [r \in Reqs |-> <<>>]
    /\ outcome = [r \in Reqs |-> <<>>]
    /\ resp = [r \in Reqs |-> NoResponse]
    /\ frames = [r \in Reqs |-> <<>>]
    /\ words = [r \in Reqs |-> <<>>]
    /\ word_index = [r \in Reqs |-> 0]

Init == ServiceInit /\ ScriptIdle

\* -------------------------------------------------------------- actions
\* A client sends a request; the body matters to POST /v1/chat/completions only.
Receive(r, ep, b) ==
    /\ pc[r] = "idle"
    /\ pc' = [pc EXCEPT ![r] = "received"]
    /\ endpoint' = [endpoint EXCEPT ![r] = ep]
    /\ raw' = [raw EXCEPT ![r] = IF ep = "chat" THEN b ELSE NoBody]
    /\ UNCHANGED <<settings, request, langchain_messages, llm, factory_calls,
                   upstream_calls, outcome, resp, frames, words, word_index>>

Respond(r, response) ==
    /\ resp' = [resp EXCEPT ![r] = response]
    /\ pc' = [pc EXCEPT ![r] = "done"]

\* (mutant) the list names the configured default model.
ListModelsBodyConfigured ==
    [object |-> "list",
     data |-> <<[id |-> settings.default_model, object |-> "model",
                 created |-> 1677610602, owned_by |-> ServiceLabel,
                 permission |-> <<>>, root |-> settings.default_model,
                 parent |-> None]>>]

\* The dict list_models returns.
ListModelsBody ==
    [object |-> "list",
     data |-> <<[id |-> "langchain-agent-hub", object |-> "model",
                 created |-> 1677610602, owned_by |-> "langchain-agent-hub",
                 permission |-> <<>>, root |-> "langchain-agent-hub",
                 parent |-> None]>>]

\* The dict health_check returns.
HealthCheckBody == [status |-> "healthy", service |-> "langchain-agent-hub"]

\* The dict root returns.
RootBody ==
    [message |-> "LangChain Agent Hub is running!", version |-> "0.1.0",
     status |-> "ready"]

\* GET /v1/models
ListModels(r) ==
    /\ pc[r] = "received" /\ endpoint[r] = "models"
    /\ Respond(r, StaticResponse(ListModelsBody))
    /\ UNCHANGED <<settings, endpoint, raw, request, langchain_messages, llm,
                   factory_calls, upstream_calls, outcome, frames, words, word_index>>

\* GET /health
HealthCheck(r) ==
    /\ pc[r] = "received" /\ endpoint[r] = "health"
    /\ Respond(r, StaticResponse(HealthCheckBody))
    /\ UNCHANGED <<settings, endpoint, raw, request, langchain_messages, llm,
                   factory_calls, upstream_calls, outcome, frames, words, word_index>>

\* GET /
Root(r) ==
    /\ pc[r] = "received" /\ endpoint[r] = "root"
    /\ Respond(r, StaticResponse(RootBody))
    /\ UNCHANGED <<settings, endpoint, raw, request, langchain_messages, llm,
                   factory_calls, upstream_calls, outcome, frames, words, word_index>>

\* The schema layer builds the handler's ChatRequest argument, or answers 422
\* without calling the handler.
Validate(r) ==
    /\ pc[r] = "received" /\ endpoint[r] = "chat"
    /\ IF ValidBody(raw[r])
       THEN /\ request' = [request EXCEPT ![r] = ChatRequest(raw[r])]
            /\ pc' = [pc EXCEPT ![r] = "validated"]
            /\ UNCHANGED resp
       ELSE /\ Respond(r, ValidationError)
            /\ UNCHANGED request
    /\ UNCHANGED <<settings, endpoint, raw, langchain_messages, llm, factory_calls,
                   upstream_calls, outcome, frames, words, word_index>>

\* (mutant) the request's temperature is forwarded to the handle.
ChatCompletionsForwarding(r) ==
    /\ pc[r] = "validated"
    /\ LET msgs == ConvertMessages(request[r].messages)
           made == GetLlm(settings, request[r].model)
       IN  /\ langchain_messages' = [langchain_messages EXCEPT ![r] = msgs]
           /\ factory_calls' = [factory_calls EXCEPT ![r] = @ + 1]
           /\ llm' = [llm EXCEPT ![r] =
                         IF made.raised THEN made.handle
                         ELSE [made.handle EXCEPT
                                  !.temperature = OrElse(request[r].temperature, "0.7")]]
           /\ IF made.raised
              THEN /\ Respond(r, HTTPException(500, made.message))
                   /\ UNCHANGED upstream_calls
              ELSE IF request[r].stream
              THEN /\ resp' = [resp EXCEPT ![r] = StreamingResponse]
                   /\ pc' = [pc EXCEPT ![r] = "stream_started"]
                   /\ UNCHANGED upstream_calls
              ELSE /\ upstream_calls' = [upstream_calls EXCEPT ![r] = Append(@, msgs)]
                   /\ pc' = [pc EXCEPT ![r] = "awaiting"]
                   /\ UNCHANGED resp
    /\ UNCHANGED <<settings, endpoint, raw, request, outcome, frames, words,
                   word_index>>

\* chat_completions from its entry to its first suspension: the conversion
\* loop, get_llm, then either the StreamingResponse is returned (the generator
\* has not run yet) or llm.ainvoke is awaited.  A raise of get_llm is caught
\* by the handler's except clause.
ChatCompletions(r) ==
    /\ pc[r] = "validated"
    /\ LET msgs == ConvertMessages(request[r].messages)
           made == GetLlm(settings, request[r].model)
       IN  /\ langchain_messages' = [langchain_messages EXCEPT ![r] = msgs]
           /\ factory_calls' = [factory_calls EXCEPT ![r] = @ + 1]
           /\ llm' = [llm EXCEPT ![r] = made.handle]
           /\ IF made.raised
              THEN /\ Respond(r, HTTPException(500, made.message))
                   /\ UNCHANGED upstream_calls
              ELSE IF request[r].stream
              THEN /\ resp' = [resp EXCEPT ![r] = StreamingResponse]
                   /\ pc' = [pc EXCEPT ![r] = "stream_started"]
                   /\ UNCHANGED upstream_calls
              ELSE /\ upstream_calls' = [upstream_calls EXCEPT ![r] = Append(@, msgs)]
                   /\ pc' = [pc EXCEPT ![r] = "awaiting"]
                   /\ UNCHANGED resp
    /\ UNCHANGED <<settings, endpoint, raw, request, outcome, frames, words,
                   word_index>>

\* llm.ainvoke returns: the handler builds the ChatResponse.
InvokeReturn(r, text) ==
    /\ pc[r] = "awaiting"
    /\ outcome' = [outcome EXCEPT ![r] = <<"ok", text>>]
    /\ Respond(r, CompletionResponse(ModelLabel(request[r]), text))
    /\ UNCHANGED <<settings, endpoint, raw, request, langchain_messages, llm,
                   factory_calls, upstream_calls, frames, words, word_index>>

\* (mutant) a failed upstream call clears the credential held in settings.
InvokeRaiseDropKey(r, msg) ==
    /\ pc[r] = "awaiting"
    /\ outcome' = [outcome EXCEPT ![r] = <<"raise", msg>>]
    /\ Respond(r, HTTPException(500, msg))
    /\ settings' = [settings EXCEPT !.openrouter_api_key = None]
    /\ UNCHANGED <<endpoint, raw, request, langchain_messages, llm,
                   factory_calls, upstream_calls, frames, words, word_index>>

\* (mutant) a failed upstream call breaks a client shared by all requests:
\* every request waiting for its call is answered with the same error.
InvokeRaiseAll(r, msg) ==
    /\ pc[r] = "awaiting"
    /\ outcome' = [outcome EXCEPT ![r] = <<"raise", msg>>]
    /\ resp' = [q \in Reqs |->
                   IF pc[q] = "awaiting" THEN HTTPException(500, msg) ELSE resp[q]]
    /\ pc' = [q \in Reqs |-> IF pc[q] = "awaiting" THEN "done" ELSE pc[q]]
    /\ UNCHANGED <<settings, endpoint, raw, request, langchain_messages, llm,
                   factory_calls, upstream_calls, frames, words, word_index>>

\* (mutant) a failed upstream call is tried once more before the error is
\* answered.
InvokeRaiseRetry(r, msg) ==
    /\ pc[r] = "awaiting"
    /\ IF Len(upstream_calls[r]) < 2
       THEN /\ upstream_calls' = [upstream_calls EXCEPT
                                     ![r] = Append(@, langchain_messages[r])]
            /\ UNCHANGED <<pc, outcome, resp>>
       ELSE /\ outcome' = [outcome EXCEPT ![r] = <<"raise", msg>>]
            /\ Respond(r, HTTPException(500, msg))
            /\ UNCHANGED upstream_calls
    /\ UNCHANGED <<settings, endpoint, raw, request, langchain_messages, llm,
                   factory_calls, frames, words, word_index>>

\* llm.ainvoke raises: except Exception -> HTTPException(500, str(e)).
InvokeRaise(r, msg) ==
    /\ pc[r] = "awaiting"
    /\ outcome' = [outcome EXCEPT ![r] = <<"raise", msg>>]
    /\ Respond(r, HTTPException(500, msg))
    /\ UNCHANGED <<settings, endpoint, raw, request, langchain_messages, llm,
                   factory_calls, upstream_calls, frames, words, word_index>>

Yield(r, frame) == frames' = [frames EXCEPT ![r] = Append(@, frame)]

\* (mutant) the generator opens the stream with an empty chunk before it
\* awaits the upstream call.
GenStartEager(r) ==
    /\ pc[r] = "stream_started"
    /\ upstream_calls' = [upstream_calls EXCEPT ![r] = Append(@, langchain_messages[r])]
    /\ Yield(r, Chunk(ModelLabel(request[r]), Some(<<>>), None))
    /\ pc' = [pc EXCEPT ![r] = "gen_awaiting"]
    /\ UNCHANGED <<settings, endpoint, raw, request, langchain_messages, llm,
                   factory_calls, outcome, resp, words, word_index>>

\* The transport starts iterating generate(): it runs to await llm.ainvoke.
GenStart(r) ==
    /\ pc[r] = "stream_started"
    /\ upstream_calls' = [upstream_calls EXCEPT ![r] = Append(@, langchain_messages[r])]
    /\ pc' = [pc EXCEPT ![r] = "gen_awaiting"]
    /\ UNCHANGED <<settings, endpoint, raw, request, langchain_messages, llm,
                   factory_calls, outcome, resp, frames, words, word_index>>

\* llm.ainvoke returns in generate(): split, then run to the first yield,
\* the first fragment or, with no word, the final chunk.
GenReturn(r, text) ==
    /\ pc[r] = "gen_awaiting"
    /\ outcome' = [outcome EXCEPT ![r] = <<"ok", text>>]
    /\ LET ws == Split(text) IN
       /\ words' = [words EXCEPT ![r] = ws]
       /\ IF ws # <<>>
          THEN /\ word_index' = [word_index EXCEPT ![r] = 1]
               /\ Yield(r, FragmentChunk(ModelLabel(request[r]), ws[1]))
               /\ pc' = [pc EXCEPT ![r] = "yield_fragment"]
          ELSE /\ Yield(r, FinalChunk(ModelLabel(request[r])))
               /\ pc' = [pc EXCEPT ![r] = "yield_final"]
               /\ UNCHANGED word_index
    /\ UNCHANGED <<settings, endpoint, raw, request, langchain_messages, llm,
                   factory_calls, upstream_calls, resp>>

\* (mutant) the raise leaves the generator and becomes the HTTP answer.
GenRaiseUncaught(r, msg) ==
    /\ pc[r] = "gen_awaiting"
    /\ outcome' = [outcome EXCEPT ![r] = <<"raise", msg>>]
    /\ Respond(r, HTTPException(500, msg))
    /\ UNCHANGED <<settings, endpoint, raw, request, langchain_messages, llm,
                   factory_calls, upstream_calls, frames, words, word_index>>

\* llm.ainvoke raises in generate(): the except clause yields the error event.
GenRaise(r, msg) ==
    /\ pc[r] = "gen_awaiting"
    /\ outcome' = [outcome EXCEPT ![r] = <<"raise", msg>>]
    /\ Yield(r, ErrorChunk(msg))
    /\ pc' = [pc EXCEPT ![r] = "yield_error"]
    /\ UNCHANGED <<settings, endpoint, raw, request, langchain_messages, llm,
                   factory_calls, upstream_calls, resp, words, word_index>>

\* The fragment is sent; the generator resumes and suspends in asyncio.sleep.
GenSleep(r) ==
    /\ pc[r] = "yield_fragment"
    /\ pc' = [pc EXCEPT ![r] = "sleeping"]
    /\ UNCHANGED <<settings, endpoint, raw, request, langchain_messages, llm,
                   factory_calls, upstream_calls, outcome, resp, frames, words,
                   word_index>>

\* The sleep ends: the next iteration's yield, or the final chunk.
GenWake(r) ==
    /\ pc[r] = "sleeping"
    /\ IF word_index[r] < Len(words[r])
       THEN /\ word_index' = [word_index EXCEPT ![r] = @ + 1]
            /\ Yield(r, FragmentChunk(ModelLabel(request[r]), words[r][word_index[r] + 1]))
            /\ pc' = [pc EXCEPT ![r] = "yield_fragment"]
       ELSE /\ Yield(r, FinalChunk(ModelLabel(request[r])))
            /\ pc' = [pc EXCEPT ![r] = "yield_final"]
            /\ UNCHANGED word_index
    /\ UNCHANGED <<settings, endpoint, raw, request, langchain_messages, llm,
                   factory_calls, upstream_calls, outcome, resp, words>>

\* The final chunk is sent; the generator yields the sentinel.
GenSentinel(r) ==
    /\ pc[r] = "yield_final"
    /\ Yield(r, DoneFrame)
    /\ pc' = [pc EXCEPT ![r] = "yield_done"]
    /\ UNCHANGED <<settings, endpoint, raw, request, langchain_messages, llm,
                   factory_calls, upstream_calls, outcome, resp, words, word_index>>

\* The generator returns after the sentinel or after the error event: the
\* stream is closed.
GenClose(r) ==
    /\ pc[r] \in {"yield_done", "yield_error"}
    /\ pc' = [pc EXCEPT ![r] = "done"]
    /\ UNCHANGED <<settings, endpoint, raw, request, langchain_messages, llm,
                   factory_calls, upstream_calls, outcome, resp, frames, words,
                   word_index>>

\* (mutant) the except clause of generate() also catches the cancellation
\* and yields its error event.
DisconnectCaught(r) ==
    /\ pc[r] \in StreamingPcs
    /\ pc' = [pc EXCEPT ![r] = "cancelled"]
    /\ Yield(r, ErrorChunk(""))
    /\ UNCHANGED <<settings, endpoint, raw, request, langchain_messages, llm,
                   factory_calls, upstream_calls, outcome, resp, words, word_index>>

\* The client goes away during a stream: the transport cancels the task that
\* iterates generate().  CancelledError and GeneratorExit are not Exceptions,
\* so the except clause does not run and nothing more is yielded.
Disconnect(r) ==
    /\ pc[r] \in StreamingPcs
    /\ pc' = [pc EXCEPT ![r] = "cancelled"]
    /\ UNCHANGED <<settings, endpoint, raw, request, langchain_messages, llm,
                   factory_calls, upstream_calls, outcome, resp, frames, words,
                   word_index>>

\* The exchange is over; the slot serves the next request.
Recycle(r) ==
    /\ pc[r] \in {"done", "cancelled"}
    /\ pc' = [pc EXCEPT ![r] = "idle"]
    /\ endpoint' = [endpoint EXCEPT ![r] = ""]
    /\ raw' = [raw EXCEPT ![r] = NoBody]
    /\ request' = [request EXCEPT ![r] = NoRequest]
    /\ langchain_messages' = [langchain_messages EXCEPT ![r] = <<>>]
    /\ llm' = [llm EXCEPT ![r] = NoHandle]
    /\ factory_calls' = [factory_calls EXCEPT ![r] = 0]
    /\ upstream_calls' = [upstream_calls EXCEPT ![r] = <<>>]
    /\ outcome' = [outcome EXCEPT ![r] = <<>>]
    /\ resp' = [resp EXCEPT ![r] = NoResponse]
    /\ frames' = [frames EXCEPT ![r] = <<>>]
    /\ words' = [words EXCEPT ![r] = <<>>]
    /\ word_index' = [word_index EXCEPT ![r] = 0]
    /\ UNCHANGED settings

\* One client that waits for each answer before it sends the next request,
\* as the test client does.
SeqReceive(r, BodySet) ==
    /\ InFlight = {}
    /\ \/ \E b \in BodySet : Receive(r, "chat", b)
       \/ \E ep \in Endpoints \ {"chat"} : Receive(r, ep, NoBody)

\* (mutant) the pacing delay is a blocking sleep: it holds the event loop.
BlockingPcsSleep == {"sleeping"}

\* The positions at which a request holds the event loop while it waits.
\* There is none: the upstream call and the pacing delay are both awaited.
BlockingPcs == {}

\* The event loop can run a step for r: no other request holds it.
LoopFree(r) == \A q \in Reqs \ {r} : pc[q] \notin BlockingPcs

ServeWith(r, TextSet, ErrSet) ==
    /\ LoopFree(r)
    /\ \/ ListModels(r)
       \/ HealthCheck(r)
       \/ Root(r)
       \/ Validate(r)
       \/ ChatCompletions(r)
       \/ \E text \in TextSet : InvokeReturn(r, text)
       \/ \E msg \in ErrSet : InvokeRaise(r, msg)
       \/ GenStart(r)
       \/ \E text \in TextSet : GenReturn(r, text)
       \/ \E msg \in ErrSet : GenRaise(r, msg)
       \/ GenSleep(r)
       \/ GenWake(r)
       \/ GenSentinel(r)
       \/ GenClose(r)
       \/ Disconnect(r)
       \/ Recycle(r)

Serve(r, TextSet) == ServeWith(r, TextSet, ErrMsgs)

\* Every conversation shape, a few response texts.
Next ==
    /\ \E r \in Reqs :
           \/ SeqReceive(r, Bodies)
           \/ Serve(r, SampleTexts)
    /\ UNCHANGED script_vars

Spec == Init /\ [][Next]_vars

\* One conversation, every response text.
TextNext ==
    /\ \E r \in Reqs :
           \/ SeqReceive(r, SampleBodies)
           \/ Serve(r, Texts)
    /\ UNCHANGED script_vars

TextSpec == Init /\ [][TextNext]_vars

\* Several clients at once: a request arrives whenever a slot is free, while
\* others are anywhere in their handling.
ConcBodies ==
    {BaseBody,
     [BaseBody EXCEPT !.stream = JBool(TRUE)],
     [BaseBody EXCEPT !.temperature = JNum("0.5"), !.max_tokens = JNum("100")],
     [BaseBody EXCEPT !.stream = JBool(TRUE), !.temperature = JNum("0.5"),
                      !.max_tokens = JNum("100")],
     [BaseBody EXCEPT !.messages = Missing]}

ConcTexts == {<<"a", " ", "b">>}
ConcErrs == {"OpenRouter API error"}

ConcReceive(r, BodySet) ==
    /\ LoopFree(r)
    /\ \/ \E b \in BodySet : Receive(r, "chat", b)
       \/ \E ep \in Endpoints \ {"chat"} : Receive(r, ep, NoBody)

ConcNext ==
    /\ \E r \in Reqs :
           \/ ConcReceive(r, ConcBodies)
           \/ ServeWith(r, ConcTexts, ConcErrs)
    /\ UNCHANGED script_vars

ConcSpec == Init /\ [][ConcNext]_vars

\* ------------------------------------------------------ scripts: merge_arguments
\* Command-line arguments as texts: flags with and without "=value", and a
\* value.
Args ==
    {<<"-", "a">>, <<"-", "b">>, <<"-", "a", "=", "x">>, <<"x">>}

DefaultArgLists == SeqsUpTo(Args, MaxDefaultArgs)
UserArgLists == SeqsUpTo(Args, MaxUserArgs)

\* arg.startswith("-")
StartsWithDash(arg) == arg # <<>> /\ arg[1] = "-"

\* The text before the first "=" from position k on, after the text `cur`.
RECURSIVE BeforeEquals(_, _, _)
BeforeEquals(arg, k, cur) ==
    IF k > Len(arg) \/ arg[k] = "="
    THEN cur
    ELSE BeforeEquals(arg, k + 1, Append(cur, arg[k]))

\* (mutant) the flag is the whole argument: "--flag=value" is a flag of its own.
SplitFlagWhole(arg) == arg

\* arg.split("=")[0]
SplitFlag(arg) == BeforeEquals(arg, 1, <<>>)

\* A default argument at i is followed by a value.
HasValue(args, i) == i + 1 <= Len(args) /\ ~StartsWithDash(args[i + 1])

\* scripts/utils.py, first loop: the flags of the default arguments.
RECURSIVE ExtractFlags(_, _, _)
ExtractFlags(args, i, default_flags) ==
    IF i > Len(args)
    THEN default_flags
    ELSE IF StartsWithDash(args[i])
         THEN ExtractFlags(args, IF HasValue(args, i) THEN i + 2 ELSE i + 1,
                           default_flags \cup {SplitFlag(args[i])})
         ELSE ExtractFlags(args, i + 1, default_flags)

\* scripts/utils.py, second loop: every user argument is appended, and a
\* user flag removes its name from the default flags.
RECURSIVE AddUserArgs(_, _, _, _)
AddUserArgs(args, k, default_flags, result) ==
    IF k > Len(args)
    THEN [merged |-> result, default_flags |-> default_flags]
    ELSE AddUserArgs(args, k + 1,
                     IF StartsWithDash(args[k])
                     THEN default_flags \ {SplitFlag(args[k])}
                     ELSE default_flags,
                     Append(result, args[k]))

\* scripts/utils.py, third loop: the default flags still in the set, each
\* with the value that follows it.
RECURSIVE AddRemainingDefaults(_, _, _, _)
AddRemainingDefaults(args, i, default_flags, result) ==
    IF i > Len(args)
    THEN result
    ELSE IF StartsWithDash(args[i]) /\ SplitFlag(args[i]) # <<>>
            /\ SplitFlag(args[i]) \in default_flags
         THEN IF HasValue(args, i)
              THEN AddRemainingDefaults(args, i + 2, default_flags,
                                        Append(Append(result, args[i]), args[i + 1]))
              ELSE AddRemainingDefaults(args, i + 1, default_flags,
                                        Append(result, args[i]))
         ELSE AddRemainingDefaults(args, i + 1, default_flags, result)

\* scripts/utils.py merge_arguments(default_args, user_args)
merge_arguments(defaults, users) ==
    LET after == AddUserArgs(users, 1, ExtractFlags(defaults, 1, {}), <<>>)
    IN  AddRemainingDefaults(defaults, 1, after.default_flags, after.merged)

\* scripts/docs.py, first loop.
RECURSIVE DocsExtractFlags(_, _, _)
DocsExtractFlags(args, i, default_flags) ==
    IF i > Len(args)
    THEN default_flags
    ELSE IF StartsWithDash(args[i])
         THEN DocsExtractFlags(args, IF HasValue(args, i) THEN i + 2 ELSE i + 1,
                               default_flags \cup {SplitFlag(args[i])})
         ELSE DocsExtractFlags(args, i + 1, default_flags)

\* scripts/docs.py, second loop.
RECURSIVE DocsAddUserArgs(_, _, _, _)
DocsAddUserArgs(args, k, default_flags, result) ==
    IF k > Len(args)
    THEN [merged |-> result, default_flags |-> default_flags]
    ELSE DocsAddUserArgs(args, k + 1,
                         IF StartsWithDash(args[k])
                         THEN default_flags \ {SplitFlag(args[k])}
                         ELSE default_flags,
                         Append(result, args[k]))

\* scripts/docs.py, third loop.
RECURSIVE DocsAddRemainingDefaults(_, _, _, _)
DocsAddRemainingDefaults(args, i, default_flags, result) ==
    IF i > Len(args)
    THEN result
    ELSE IF StartsWithDash(args[i]) /\ SplitFlag(args[i]) # <<>>
            /\ SplitFlag(args[i]) \in default_flags
         THEN IF HasValue(args, i)
              THEN DocsAddRemainingDefaults(args, i + 2, default_flags,
                                            Append(Append(result, args[i]), args[i + 1]))
              ELSE DocsAddRemainingDefaults(args, i + 1, default_flags,
                                            Append(result, args[i]))
         ELSE DocsAddRemainingDefaults(args, i + 1, default_flags, result)

\* scripts/docs.py merge_arguments(default_args, user_args)
docs_merge_arguments(defaults, users) ==
    LET after == DocsAddUserArgs(users, 1, DocsExtractFlags(defaults, 1, {}), <<>>)
    IN  DocsAddRemainingDefaults(defaults, 1, after.default_flags, after.merged)

\* A script is run with some default and some user arguments.
MergeInit ==
    /\ ServiceInit
    /\ settings.openrouter_api_key = None /\ settings.default_model = DefaultModel
    /\ default_args \in DefaultArgLists
    /\ user_args \in UserArgLists
    /\ merged = None
    /\ docs_merged = None

\* The copy of scripts/utils.py is called.
MergeArguments ==
    /\ merged = None
    /\ merged' = Some(merge_arguments(default_args, user_args))
    /\ UNCHANGED <<default_args, user_args, docs_merged>>

\* The copy of scripts/docs.py is called.
DocsMergeArguments ==
    /\ docs_merged = None
    /\ docs_merged' = Some(docs_merge_arguments(default_args, user_args))
    /\ UNCHANGED <<default_args, user_args, merged>>

MergeNext ==
    /\ \/ MergeArguments
       \/ DocsMergeArguments
    /\ UNCHANGED vars

MergeSpec == MergeInit /\ [][MergeNext]_script_vars

\* ------------------------------------------------- vocabulary of the claims
Configured == settings.openrouter_api_key # None
IsChat(r) == endpoint[r] = "chat"
WantsStream(r) == raw[r].stream = JBool(TRUE)
UpstreamReturned(r) == outcome[r] # <<>> /\ outcome[r][1] = "ok"
UpstreamRaised(r) == outcome[r] # <<>> /\ outcome[r][1] = "raise"
UpstreamResult(r) == outcome[r][2]

\* C1: a valid stream=false request with a credential and a successful
\* upstream call is answered 200 with exactly one choice: index 0, role
\* "assistant", finish_reason "stop", and the content the model client
\* returned, character for character.
C1_NonStreamingContent ==
    \A r \in Reqs :
        (IsChat(r) /\ ~WantsStream(r) /\ Configured /\ UpstreamReturned(r)) =>
            /\ resp[r].status = 200
            /\ resp[r].completion # None
            /\ LET choices == resp[r].completion[1].choices IN
               /\ Len(choices) = 1
               /\ choices[1].index = 0
               /\ choices[1].message.role = "assistant"
               /\ choices[1].finish_reason = "stop"
               /\ choices[1].message.content = UpstreamResult(r)

\* A text with leading and trailing whitespace came back unchanged.
C1_Witness ==
    \E r \in Reqs :
        /\ IsChat(r) /\ ~WantsStream(r) /\ UpstreamReturned(r)
        /\ UpstreamResult(r) = <<"\n", "a", " ">>
        /\ pc[r] = "done" /\ resp[r].status = 200

\* ------------------------------------------------------ reading a stream
IsTerminal(f) ==
    /\ f.kind = "chunk"
    /\ f.choices[1].delta = None
    /\ f.choices[1].finish_reason = Some("stop")

IsFragment(f) == f.kind = "chunk" /\ f.choices[1].delta # None
IsSentinel(f) == f.kind = "done"
IsErrorEvent(f) == f.kind = "error"

Positions(fs, P(_)) == {k \in 1..Len(fs) : P(fs[k])}

\* The delta.content values of the fragment chunks, concatenated in order.
RECURSIVE ConcatContents(_)
ConcatContents(fs) ==
    IF fs = <<>> THEN <<>>
    ELSE IF IsFragment(Head(fs))
         THEN Head(fs).choices[1].delta[1] \o ConcatContents(Tail(fs))
         ELSE ConcatContents(Tail(fs))

StreamCompleted(r) == IsChat(r) /\ WantsStream(r) /\ pc[r] = "done" /\ resp[r].status = 200

\* C2: in a stream=true request whose upstream call succeeds, the
\* delta.content values of the non-terminal chunks, concatenated in emission
\* order, are the response text the model returned, whatever its whitespace.
C2_ConcatReconstructsText ==
    \A r \in Reqs :
        (StreamCompleted(r) /\ UpstreamReturned(r)) =>
            ConcatContents(frames[r]) = UpstreamResult(r)

\* C3 as stated: every completed stream ends with exactly one terminal chunk
\* immediately followed by the sentinel, the last frame.
EndsWithTerminalAndSentinel(fs) ==
    /\ Len(fs) >= 2
    /\ IsSentinel(fs[Len(fs)])
    /\ IsTerminal(fs[Len(fs) - 1])
    /\ Cardinality(Positions(fs, IsSentinel)) = 1
    /\ Cardinality(Positions(fs, IsTerminal)) = 1

C3_EveryStreamEndsWithSentinel ==
    \A r \in Reqs : StreamCompleted(r) => EndsWithTerminalAndSentinel(frames[r])

\* C3 (amended): a stream whose upstream call succeeded and that ran to its
\* end finishes with exactly one terminal chunk immediately followed by the
\* sentinel; and in every stream, at every moment, a sentinel is the last
\* frame, follows a terminal chunk, and neither occurs twice.
C3_SuccessfulStreamEndsWithSentinel ==
    \A r \in Reqs :
        /\ (StreamCompleted(r) /\ UpstreamReturned(r)) =>
               EndsWithTerminalAndSentinel(frames[r])
        /\ Cardinality(Positions(frames[r], IsSentinel)) <= 1
        /\ Cardinality(Positions(frames[r], IsTerminal)) <= 1
        /\ \A k \in Positions(frames[r], IsSentinel) :
               k = Len(frames[r]) /\ k > 1 /\ IsTerminal(frames[r][k - 1])

\* Two fragments, the terminal chunk, the sentinel; the stream is closed.
C3_Witness ==
    \E r \in Reqs :
        /\ StreamCompleted(r) /\ UpstreamReturned(r)
        /\ Len(frames[r]) = 4
        /\ IsFragment(frames[r][1]) /\ IsFragment(frames[r][2])
        /\ IsTerminal(frames[r][3]) /\ IsSentinel(frames[r][4])

\* C4: when the upstream call of a stream=true request raises, the stream is
\* exactly one frame, the error event with the error's text, and then it
\* closes: no fragment, terminal chunk or sentinel is ever in it.
C4_FailedStreamIsOneErrorEvent ==
    \A r \in Reqs :
        (IsChat(r) /\ WantsStream(r) /\ UpstreamRaised(r)) =>
            /\ Len(frames[r]) = 1
            /\ IsErrorEvent(frames[r][1])
            /\ frames[r][1].error.message = UpstreamResult(r)
            /\ Positions(frames[r], IsFragment) = {}
            /\ Positions(frames[r], IsTerminal) = {}
            /\ Positions(frames[r], IsSentinel) = {}
            /\ pc[r] \in {"yield_error", "done", "cancelled"}

C4_Witness ==
    \E r \in Reqs :
        /\ IsChat(r) /\ WantsStream(r) /\ UpstreamRaised(r)
        /\ UpstreamResult(r) = "OpenRouter API error"
        /\ pc[r] = "done" /\ Len(frames[r]) = 1

\* ------------------------------------------------ reading a request body
\* The ways a body breaks the schema, as the client sees them.
MalformedJson(b) == ~b.json
MissingMessages(b) == b.json /\ b.messages = Missing
MessagesNotAList(b) == b.json /\ Tag(b.messages) \notin {"list", "missing"}
BadMessage(m) ==
    \/ m.content = Missing \/ Tag(m.content) \notin {"str", "missing"}
    \/ m.role = Missing \/ Tag(m.role) \notin {"str", "missing"}
HasBadMessage(b) ==
    /\ b.json /\ Tag(b.messages) = "list"
    /\ \E k \in 1..Len(b.messages[2]) : BadMessage(b.messages[2][k])
WrongFieldType(b) ==
    /\ b.json
    /\ \/ Tag(b.model) \in {"num", "bool", "list"}
       \/ Tag(b.stream) \in {"str", "num", "list", "null"}
       \/ Tag(b.temperature) \in {"str", "bool", "list"}
       \/ Tag(b.max_tokens) \in {"str", "bool", "list"}

ViolatesSchema(b) ==
    \/ MalformedJson(b) \/ MissingMessages(b) \/ MessagesNotAList(b)
    \/ HasBadMessage(b) \/ WrongFieldType(b)

\* The messages of a body that keeps the schema, as records of strings.
SentMessages(r) == raw[r].messages[2]
RecognizedRoles == {"user", "assistant", "system"}
RecognizedAt(r) ==
    {k \in 1..Len(SentMessages(r)) : SentMessages(r)[k].role[2] \in RecognizedRoles}
\* The place among the recognized messages of the recognized message k.
Rank(r, k) == Cardinality({j \in RecognizedAt(r) : j <= k})
UpstreamType(role) ==
    CASE role = "user" -> "Human"
      [] role = "assistant" -> "AI"
      [] role = "system" -> "System"

\* C5: with no credential configured, a chat-completions request that passes
\* validation, streaming or not, ends in HTTP 500 with the missing-credential
\* message as detail, makes no upstream call and emits no frame; the process
\* is up all the same: its static endpoints answer 200.
C5_MissingCredentialFailsAtRequestTime ==
    ~Configured =>
        \A r \in Reqs :
            /\ (IsChat(r) /\ ~ViolatesSchema(raw[r])) =>
                   /\ upstream_calls[r] = <<>>
                   /\ outcome[r] = <<>>
                   /\ frames[r] = <<>>
                   /\ pc[r] \in {"received", "validated", "done"}
                   /\ pc[r] = "done" =>
                          /\ resp[r].status = 500
                          /\ resp[r].detail =
                                 "OPENROUTER_API_KEY is not set in the environment"
                          /\ resp[r].completion = None
            /\ (endpoint[r] \in {"models", "health", "root"} /\ pc[r] = "done") =>
                   resp[r].status = 200

\* A stream=true request answered 500 for the missing credential.
C5_Witness ==
    /\ ~Configured
    /\ \E r \in Reqs :
           /\ IsChat(r) /\ WantsStream(r) /\ pc[r] = "done"
           /\ resp[r].status = 500 /\ factory_calls[r] = 1

\* C6: when the upstream call of a stream=false request raises, the answer
\* is HTTP 500 with the raised message as detail; the call was made once
\* and no completion body is returned.
C6_UpstreamFailureIs500 ==
    \A r \in Reqs :
        (IsChat(r) /\ ~WantsStream(r) /\ UpstreamRaised(r)) =>
            /\ pc[r] = "done"
            /\ resp[r].status = 500
            /\ resp[r].detail = UpstreamResult(r)
            /\ resp[r].completion = None
            /\ frames[r] = <<>>
            /\ Len(upstream_calls[r]) = 1

C6_Witness ==
    \E r \in Reqs :
        /\ IsChat(r) /\ ~WantsStream(r) /\ UpstreamRaised(r)
        /\ UpstreamResult(r) = "OpenRouter API error"
        /\ resp[r].status = 500

\* C7: a stream=true request with a credential is answered HTTP 200 whether
\* its upstream call returns or raises; a raise shows as the error event in
\* the stream and nowhere else, and an error event means the call raised.
C7_StreamFailureIsInBand ==
    \A r \in Reqs :
        (IsChat(r) /\ ~ViolatesSchema(raw[r]) /\ WantsStream(r) /\ Configured
            /\ pc[r] \notin {"received", "validated"}) =>
            /\ resp[r].status = 200
            /\ resp[r].detail = ""
            /\ UpstreamRaised(r) <=> Positions(frames[r], IsErrorEvent) # {}

C7_Witness ==
    \E r \in Reqs :
        /\ IsChat(r) /\ WantsStream(r) /\ Configured /\ UpstreamRaised(r)
        /\ pc[r] = "done" /\ resp[r].status = 200
        /\ IsErrorEvent(frames[r][1])

\* C8: a body that breaks the schema (malformed JSON, no messages field, a
\* message without content, a field of the wrong type) is answered 422 with
\* neither the client factory nor the upstream model called.
C8_SchemaViolationIs422 ==
    \A r \in Reqs :
        (IsChat(r) /\ ViolatesSchema(raw[r])) =>
            /\ factory_calls[r] = 0
            /\ upstream_calls[r] = <<>>
            /\ pc[r] \in {"received", "done"}
            /\ pc[r] = "done" => resp[r].status = 422

\* A message without content was answered 422.
C8_Witness ==
    \E r \in Reqs :
        /\ IsChat(r) /\ pc[r] = "done" /\ resp[r].status = 422
        /\ HasBadMessage(raw[r])
        /\ \E k \in 1..Len(SentMessages(r)) : SentMessages(r)[k].content = Missing

\* C9: every upstream call carries the request's recognized-role messages
\* in the request's order, each once, mapped user to Human, assistant to AI
\* and system to System with its content unchanged.
C9_MessageOrderPreserved ==
    \A r \in Reqs :
        \A n \in 1..Len(upstream_calls[r]) :
            LET sent == upstream_calls[r][n] IN
            /\ Len(sent) = Cardinality(RecognizedAt(r))
            /\ \A k \in RecognizedAt(r) :
                   /\ sent[Rank(r, k)].type = UpstreamType(SentMessages(r)[k].role[2])
                   /\ sent[Rank(r, k)].content = SentMessages(r)[k].content[2]

\* Two messages of different roles went upstream.
C9_Witness ==
    \E r \in Reqs :
        /\ Len(upstream_calls[r]) = 1
        /\ Len(upstream_calls[r][1]) = 2
        /\ upstream_calls[r][1][1].type = "System"
        /\ upstream_calls[r][1][2].type = "Human"

\* C10: a request holding a message of an unrecognized role is not answered
\* with a validation error; with a credential configured, once it has run to
\* its end it has made its upstream call with exactly the recognized-role
\* messages, as many as the request holds, possibly none.
C10_UnknownRoleDropped ==
    \A r \in Reqs :
        (IsChat(r) /\ ~ViolatesSchema(raw[r])
            /\ RecognizedAt(r) # 1..Len(SentMessages(r))) =>
            /\ resp[r].status # 422
            /\ (Configured /\ pc[r] = "done") =>
                   /\ Len(upstream_calls[r]) = 1
                   /\ Len(upstream_calls[r][1]) = Cardinality(RecognizedAt(r))
                   /\ \A k \in 1..Len(upstream_calls[r][1]) :
                          upstream_calls[r][1][k].type \in {"Human", "AI", "System"}

\* A request whose only message has an unrecognized role was answered 200
\* after an upstream call with no message.
C10_Witness ==
    \E r \in Reqs :
        /\ IsChat(r) /\ pc[r] = "done" /\ resp[r].status = 200
        /\ Len(SentMessages(r)) = 1 /\ RecognizedAt(r) = {}
        /\ upstream_calls[r] = << <<>> >>

\* The request has got as far as its upstream call: the call is pending, has
\* returned or raised, or the exchange has run to its end.
ReachedUpstream(r) ==
    \/ pc[r] \in {"awaiting", "gen_awaiting", "done"}
    \/ outcome[r] # <<>>

SeenModels(r) ==
    (IF resp[r].completion # None THEN {resp[r].completion[1].model} ELSE {})
    \cup {frames[r][k].model : k \in Positions(frames[r], LAMBDA f : f.kind = "chunk")}

GivesModel(r) == Tag(raw[r].model) = "str"
NamesModel(r) == GivesModel(r) /\ raw[r].model[2] # ""

Phase(r) ==
    CASE pc[r] = "idle" -> "Idle"
      [] pc[r] = "received" -> "Received"
      [] pc[r] \in {"validated", "awaiting"} -> "Validated"
      [] pc[r] \in StreamingPcs -> "Streaming"
      [] pc[r] = "cancelled" -> "Abandoned"
      [] pc[r] = "done" /\ resp[r].status = 422 -> "Rejected"
      [] pc[r] = "done" /\ resp[r].status # 422
            /\ (resp[r].status = 500 \/ Positions(frames[r], IsErrorEvent) # {}) -> "Failed"
      [] OTHER -> "Completed"

Ended == {"Rejected", "Completed", "Failed", "Abandoned"}

\* The moves every reading of the state machine allows: arrival, validation
\* or its refusal, the end of a stream=false request, the course of a stream,
\* and the end of the exchange.
CommonMove(r, a, b) ==
    \/ a = b
    \/ a = "Idle" /\ b = "Received"
    \/ a = "Received" /\ b = "Validated" /\ ~ViolatesSchema(raw[r])
    \/ a = "Received" /\ b = "Rejected" /\ ViolatesSchema(raw[r])
    \/ a = "Validated" /\ b \in {"Completed", "Failed"} /\ ~WantsStream(r)
    \/ a = "Streaming" /\ b \in {"Completed", "Failed", "Abandoned"}
    \/ a \in Ended /\ b = "Idle"

\* C13 (as stated): a streaming request leaves Validated for Streaming only,
\* and so is Completed or Failed only after it was Streaming.
C13_StreamEndsOnlyAfterStreaming ==
    [][\A r \in Reqs :
          IsChat(r) =>
              \/ CommonMove(r, Phase(r), Phase(r)')
              \/ Phase(r) = "Validated" /\ Phase(r)' = "Streaming" /\ WantsStream(r)]_vars

\* C13 (amended): a chat request goes from Received to Validated, or is
\* refused; a stream=false request then ends Completed or Failed; a
\* stream=true request enters Streaming when the credential is configured and
\* from there ends Completed or Failed (or is abandoned by its client), and
\* without a credential it goes from Validated straight to Failed; a state in
\* which a request ended is left only when the exchange is over, and no other
\* move occurs.
C13_RequestStateMachine ==
    [][\A r \in Reqs :
          IsChat(r) =>
              \/ CommonMove(r, Phase(r), Phase(r)')
              \/ /\ Phase(r) = "Validated" /\ WantsStream(r)
                 /\ \/ Phase(r)' = "Streaming" /\ Configured
                    \/ Phase(r)' = "Failed" /\ ~Configured]_vars

\* A stream=true request failed without a frame: it was never Streaming.
C13_Witness ==
    \E r \in Reqs :
        /\ IsChat(r) /\ WantsStream(r) /\ Phase(r) = "Failed"
        /\ frames[r] = <<>> /\ factory_calls[r] = 1

\* ------------------------------------------------------ requests together
\* Everything the service holds for the request in slot r.
Slot(r) ==
    <<pc[r], endpoint[r], raw[r], request[r], langchain_messages[r], llm[r],
      factory_calls[r], upstream_calls[r], outcome[r], resp[r], frames[r],
      words[r], word_index[r]>>

\* The answer of a chat request that has run to its end is decided by its own
\* body, the credential and its own upstream call, and shows its own error.
OwnAnswer(r) ==
    IF ViolatesSchema(raw[r]) THEN resp[r].status = 422 /\ frames[r] = <<>>
    ELSE IF ~Configured
    THEN resp[r].status = 500 /\ resp[r].detail = MissingKeyMessage /\ frames[r] = <<>>
    ELSE IF UpstreamRaised(r) /\ ~WantsStream(r)
    THEN resp[r].status = 500 /\ resp[r].detail = UpstreamResult(r) /\ frames[r] = <<>>
    ELSE IF UpstreamRaised(r)
    THEN /\ resp[r].status = 200
         /\ Positions(frames[r], IsErrorEvent) = {1}
         /\ frames[r][1].error.message = UpstreamResult(r)
    ELSE /\ resp[r].status = 200
         /\ Positions(frames[r], IsErrorEvent) = {}
         /\ UpstreamReturned(r)

\* C14: with several requests in flight, every step, a failure included,
\* changes what the service holds for one request only and leaves the
\* settings alone; every chat request that has run to its end carries the
\* answer its own body, the credential and its own upstream call decide, its
\* own error included; every static request is answered 200.
C14_FailureIsIsolated ==
    /\ [](\A r \in Reqs :
             pc[r] = "done" =>
                 IF IsChat(r) THEN OwnAnswer(r) ELSE resp[r].status = 200)
    /\ [][/\ settings' = settings
          /\ \A r1, r2 \in Reqs :
                 (Slot(r1)' # Slot(r1) /\ Slot(r2)' # Slot(r2)) => r1 = r2]_vars

\* Two requests were in flight together: one ended with its upstream error,
\* the other with its completion.
C14_Witness ==
    \E r1, r2 \in Reqs :
        /\ IsChat(r1) /\ pc[r1] = "done" /\ UpstreamRaised(r1) /\ resp[r1].status = 500
        /\ IsChat(r2) /\ pc[r2] = "done" /\ UpstreamReturned(r2)
        /\ resp[r2].status = 200 /\ resp[r2].completion # None

\* ------------------------------------------------------ no message at all
SendsNoMessage(r) ==
    IsChat(r) /\ raw[r].messages = JList(<<>>) /\ ~ViolatesSchema(raw[r])

\* C15: a request whose message list is empty is not refused by validation
\* and is answered 200 or 500 only.  With a credential its one upstream call
\* carries the empty sequence, and with stream=false the call's outcome
\* decides: 200 when it returns, 500 when it raises.  Without a credential
\* the answer is 500 and no call is made.
C15_EmptyMessagesAnswered ==
    \A r \in Reqs :
        SendsNoMessage(r) =>
            /\ resp[r].status # 422
            /\ pc[r] \notin {"idle", "received"} => request[r].messages = <<>>
            /\ pc[r] = "done" => resp[r].status \in {200, 500}
            /\ (Configured /\ ReachedUpstream(r)) => upstream_calls[r] = << <<>> >>
            /\ (Configured /\ pc[r] = "done" /\ ~WantsStream(r)) =>
                   /\ resp[r].status = 200 <=> UpstreamReturned(r)
                   /\ resp[r].status = 500 <=> UpstreamRaised(r)
            /\ (~Configured /\ pc[r] = "done") =>
                   resp[r].status = 500 /\ upstream_calls[r] = <<>>

\* A stream=false request with no message was answered 200 after an upstream
\* call with the empty sequence.
C15_Witness ==
    \E r \in Reqs :
        /\ SendsNoMessage(r) /\ ~WantsStream(r) /\ pc[r] = "done"
        /\ upstream_calls[r] = << <<>> >> /\ UpstreamReturned(r)
        /\ resp[r].status = 200

Suspended(r) == pc[r] \in {"awaiting", "gen_awaiting", "sleeping"}

\* C17: while one request is suspended on its upstream call or on the pacing
\* delay of a stream, every other slot can take its next step: a free slot
\* can receive a request of any endpoint, and a request in flight (health,
\* models, root or chat) can be served its next step, up to its completion.
C17_SuspensionDoesNotBlock ==
    \A r1, r2 \in Reqs :
        (r1 # r2 /\ Suspended(r1)) =>
            /\ pc[r2] = "idle" => ENABLED ConcReceive(r2, ConcBodies)
            /\ pc[r2] # "idle" => ENABLED ServeWith(r2, ConcTexts, ConcErrs)

\* A health request was answered while a stream was in its pacing delay and
\* had not yet issued its final chunk.
C17_Witness ==
    \E r1, r2 \in Reqs :
        /\ r1 # r2 /\ pc[r1] = "sleeping"
        /\ endpoint[r2] = "health" /\ pc[r2] = "done" /\ resp[r2].status = 200

\* ------------------------------------------------------ the static endpoints
\* C18: every answer of GET /v1/models is 200 with the one-element model list
\* whose entry has id "langchain-agent-hub" and parent null, and every answer
\* of GET /health is 200 with status "healthy" and the service name, whatever
\* came before (other calls, failures, a missing credential); two answers of
\* the same endpoint are equal; and answering changes nothing but the
\* request's own answer.
C18_StaticEndpointsIdempotent ==
    /\ [](\A r \in Reqs :
             pc[r] = "done" =>
                 /\ endpoint[r] = "models" =>
                        /\ resp[r] = StaticResponse(ListModelsBody)
                        /\ resp[r].status = 200
                        /\ resp[r].static[1].object = "list"
                        /\ Len(resp[r].static[1].data) = 1
                        /\ resp[r].static[1].data[1].id = "langchain-agent-hub"
                        /\ resp[r].static[1].data[1].parent = None
                 /\ endpoint[r] = "health" =>
                        /\ resp[r].status = 200
                        /\ resp[r].static =
                               Some([status |-> "healthy",
                                     service |-> "langchain-agent-hub"])
                 /\ \A q \in Reqs :
                        (pc[q] = "done" /\ endpoint[q] = endpoint[r]
                            /\ endpoint[r] \in {"models", "health"}) =>
                            resp[q] = resp[r])
    /\ [][\A r \in Reqs :
              (pc[r] = "received" /\ endpoint[r] \in {"models", "health"}
                  /\ pc'[r] # pc[r]) =>
                  /\ settings' = settings
                  /\ \A q \in Reqs \ {r} : Slot(q)' = Slot(q)
                  /\ <<endpoint[r], raw[r], request[r], langchain_messages[r], llm[r],
                       factory_calls[r], upstream_calls[r], outcome[r], frames[r],
                       words[r], word_index[r]>>'
                     = <<endpoint[r], raw[r], request[r], langchain_messages[r], llm[r],
                         factory_calls[r], upstream_calls[r], outcome[r], frames[r],
                         words[r], word_index[r]>>]_vars

\* With no credential configured, the model list was answered while a chat
\* request had just failed with 500.
C18_Witness ==
    /\ ~Configured
    /\ \E r1, r2 \in Reqs :
           /\ endpoint[r1] = "models" /\ pc[r1] = "done" /\ resp[r1].status = 200
           /\ IsChat(r2) /\ pc[r2] = "done" /\ resp[r2].status = 500

\* --------------------------------------------------- two kinds of failure
\* The handler has called the factory.
FactoryCalled(r) == IsChat(r) /\ factory_calls[r] > 0

\* The factory raises exactly when no credential is set, and returns a
\* handle holding the credential otherwise.
FactoryChecksCredential ==
    \A r \in Reqs :
        /\ factory_calls[r] <= 1
        /\ FactoryCalled(r) =>
               IF Configured
               THEN /\ llm[r] # NoHandle
                    /\ llm[r].api_key = settings.openrouter_api_key[1]
                    /\ ~(pc[r] = "done" /\ resp[r].status = 500 /\ outcome[r] = <<>>)
               ELSE /\ llm[r] = NoHandle
                    /\ pc[r] = "done" /\ resp[r].status = 500

\* What the caller of a request failed for the missing credential receives.
MissingCredentialAnswer ==
    [status |-> 500, media_type |-> "application/json",
     detail |-> "OPENROUTER_API_KEY is not set in the environment",
     completion |-> None, static |-> None]

\* C19 (as stated): the factory raises exactly when no credential is set,
\* and the caller can tell the two kinds of failure apart: no request whose
\* upstream call raised receives what a request failed for the missing
\* credential receives.
C19_FailureKindsDistinct ==
    /\ FactoryChecksCredential
    /\ \A r \in Reqs :
           (FactoryCalled(r) /\ pc[r] = "done") =>
               /\ ~Configured => resp[r] = MissingCredentialAnswer
               /\ UpstreamRaised(r) => resp[r] # MissingCredentialAnswer

\* C19 (amended): the factory raises exactly when no credential is set and
\* returns a handle otherwise; the missing credential reaches the caller of
\* chat completions as HTTP 500 with the factory's message as detail, and an
\* upstream failure of a stream=false request reaches it in the same form,
\* HTTP 500 with the failure's text as detail: nothing but the detail text
\* tells the two apart.
C19_FailureKindsShareOneForm ==
    /\ FactoryChecksCredential
    /\ \A r \in Reqs :
           (FactoryCalled(r) /\ pc[r] = "done") =>
               /\ ~Configured => resp[r] = MissingCredentialAnswer
               /\ (UpstreamRaised(r) /\ ~WantsStream(r)) =>
                      resp[r] = [MissingCredentialAnswer EXCEPT
                                    !.detail = UpstreamResult(r)]

\* An upstream failure whose text is the factory's message was answered
\* exactly as a missing credential is.
C19_Witness ==
    \E r \in Reqs :
        /\ Configured /\ FactoryCalled(r) /\ llm[r] # NoHandle
        /\ UpstreamRaised(r) /\ pc[r] = "done"
        /\ resp[r] = MissingCredentialAnswer

\* ------------------------------------------- temperature and max_tokens
\* The body without its temperature and max_tokens.
WithoutParams(b) == [b EXCEPT !.temperature = Missing, !.max_tokens = Missing]

\* Two chat requests in flight that differ in temperature or max_tokens and
\* in nothing else.
DifferInParamsOnly(r1, r2) ==
    /\ IsChat(r1) /\ IsChat(r2)
    /\ ~ViolatesSchema(raw[r1]) /\ ~ViolatesSchema(raw[r2])
    /\ raw[r1] # raw[r2]
    /\ WithoutParams(raw[r1]) = WithoutParams(raw[r2])

\* C20: two valid requests that differ only in temperature and/or max_tokens
\* get the same client handle, whose temperature is 0.7, send the same
\* message sequence upstream, and, for the same upstream result, carry the
\* same frames at the same point of their stream and the same response and
\* frames at their end.
C20_ParamsHaveNoInfluence ==
    \A r1, r2 \in Reqs :
        DifferInParamsOnly(r1, r2) =>
            /\ (factory_calls[r1] > 0 /\ factory_calls[r2] > 0) =>
                   /\ llm[r1] = llm[r2]
                   /\ llm[r1] # NoHandle => llm[r1].temperature = "0.7"
                   /\ langchain_messages[r1] = langchain_messages[r2]
            /\ (upstream_calls[r1] # <<>> /\ upstream_calls[r2] # <<>>) =>
                   upstream_calls[r1] = upstream_calls[r2]
            /\ (outcome[r1] = outcome[r2] /\ pc[r1] = pc[r2]
                   /\ pc[r1] \notin {"received", "cancelled"}
                   /\ word_index[r1] = word_index[r2]) =>
                   /\ resp[r1] = resp[r2]
                   /\ frames[r1] = frames[r2]

\* Two streams, one with temperature 0.5 and max_tokens 100 and one without
\* either, ended with the same frames for the same upstream text.
C20_Witness ==
    \E r1, r2 \in Reqs :
        /\ DifferInParamsOnly(r1, r2)
        /\ raw[r1].temperature = JNum("0.5") /\ raw[r1].max_tokens = JNum("100")
        /\ StreamCompleted(r1) /\ StreamCompleted(r2)
        /\ UpstreamReturned(r1) /\ outcome[r1] = outcome[r2]
        /\ Len(frames[r1]) = 4 /\ frames[r1] = frames[r2]

\* ------------------------------------------------------- settings at rest
\* C21: no step of any request, to any endpoint, successful or failing,
\* streaming or not, changes the credential, the base URL or the default
\* model; every handle in use holds the credential and base URL the settings
\* hold now; and a step of one request writes nothing another request reads:
\* all it changes is what the service holds for that one request.
C21_SettingsNeverMutated ==
    /\ [](\A r \in Reqs :
             llm[r] # NoHandle =>
                 /\ settings.openrouter_api_key = Some(llm[r].api_key)
                 /\ settings.openrouter_base_url = llm[r].base_url)
    /\ [][/\ settings'.openrouter_api_key = settings.openrouter_api_key
          /\ settings'.openrouter_base_url = settings.openrouter_base_url
          /\ settings'.default_model = settings.default_model
          /\ \A r \in Reqs :
                 Slot(r)' # Slot(r) => \A q \in Reqs \ {r} : Slot(q)' = Slot(q)]_vars

\* After one request failed upstream, another holds a handle with the
\* credential the settings still hold and has made its call.
C21_Witness ==
    \E r1, r2 \in Reqs :
        /\ IsChat(r1) /\ pc[r1] = "done" /\ UpstreamRaised(r1)
        /\ IsChat(r2) /\ upstream_calls[r2] # <<>>
        /\ r1 # r2 /\ settings.openrouter_api_key = Some(llm[r2].api_key)

\* ------------------------------------------------- the words of a text
\* The maximal runs of non-whitespace characters of a text, by position.
RunStarts(t) ==
    {i \in 1..Len(t) : t[i] \notin Whitespace /\ (i = 1 \/ t[i - 1] \in Whitespace)}

RunEnd(t, i) ==
    CHOOSE j \in i..Len(t) :
        /\ \A m \in i..j : t[m] \notin Whitespace
        /\ j = Len(t) \/ t[j + 1] \in Whitespace

\* The k-th run, in the order of the text.
Run(t, k) ==
    LET i == CHOOSE s \in RunStarts(t) : Cardinality({j \in RunStarts(t) : j <= s}) = k
    IN  SubSeq(t, i, RunEnd(t, i))

FragmentContent(f) == f.choices[1].delta[1]

\* C22: a stream carries no frame before its upstream call has returned or
\* raised; after a successful call the fragments come first, one per step,
\* the k-th being the k-th word of the response text, and frames already
\* issued never change; the terminal chunk comes only after the fragment of
\* the last word, and the sentinel only after the terminal chunk.
C22_StreamOrder ==
    /\ [](\A r \in Reqs :
             /\ frames[r] # <<>> => outcome[r] # <<>>
             /\ UpstreamReturned(r) =>
                    LET fs == frames[r]
                        text == UpstreamResult(r)
                        n == Cardinality(Positions(fs, IsFragment))
                    IN  /\ Positions(fs, IsFragment) = 1..n
                        /\ n <= Cardinality(RunStarts(text))
                        /\ \A k \in 1..n : FragmentContent(fs[k]) = Run(text, k) \o <<" ">>
                        /\ \A k \in Positions(fs, IsTerminal) :
                               k = n + 1 /\ n = Cardinality(RunStarts(text))
                        /\ \A k \in Positions(fs, IsSentinel) : k = n + 2
                        /\ Len(fs) <= n + 2)
    /\ [][\A r \in Reqs :
              \/ frames'[r] = frames[r]
              \/ frames'[r] = <<>> /\ pc'[r] = "idle"
              \/ /\ Len(frames'[r]) = Len(frames[r]) + 1
                 /\ SubSeq(frames'[r], 1, Len(frames[r])) = frames[r]
                 /\ pc'[r] # pc[r]]_vars

\* The fragment of the first word of "b a" is out and the generator is in its
\* pacing delay; the second word's fragment does not exist yet.
C22_Witness ==
    \E r \in Reqs :
        /\ pc[r] = "sleeping" /\ UpstreamReturned(r)
        /\ UpstreamResult(r) = <<"b", " ", "a">>
        /\ Len(frames[r]) = 1 /\ FragmentContent(frames[r][1]) = <<"b", " ">>

\* ------------------------------------------------------------ fragments
\* The stream ran to its end after a successful upstream call.
StreamSucceeded(r) == StreamCompleted(r) /\ UpstreamReturned(r)

\* C23: a successful stream has as many fragment chunks as the response
\* text has maximal non-whitespace runs; each fragment's content is one of
\* these runs followed by one space: it is not empty, ends with a space and
\* holds no other whitespace; an empty or whitespace-only text gives no
\* fragment, and the stream is the terminal chunk followed by the sentinel.
C23_FragmentsAreWords ==
    \A r \in Reqs :
        StreamSucceeded(r) =>
            LET fs == frames[r]
                text == UpstreamResult(r)
                at == Positions(fs, IsFragment)
            IN  /\ Cardinality(at) = Cardinality(RunStarts(text))
                /\ \A k \in at :
                       LET c == FragmentContent(fs[k]) IN
                       /\ Len(c) >= 2
                       /\ c[Len(c)] = " "
                       /\ \A m \in 1..(Len(c) - 1) : c[m] \notin Whitespace
                       /\ \E i \in RunStarts(text) :
                              SubSeq(c, 1, Len(c) - 1) = SubSeq(text, i, RunEnd(text, i))
                /\ (\A m \in 1..Len(text) : text[m] \in Whitespace) =>
                       /\ Len(fs) = 2
                       /\ IsTerminal(fs[1])
                       /\ IsSentinel(fs[2])

\* A whitespace-only text gave the terminal chunk and the sentinel, nothing
\* else.
C23_Witness ==
    \E r \in Reqs :
        /\ StreamSucceeded(r)
        /\ UpstreamResult(r) = <<" ", "\n">>
        /\ Len(frames[r]) = 2 /\ IsTerminal(frames[r][1])

\* --------------------------------------------------- the shape of a chunk
IsChunk(f) == f.kind = "chunk"
SaysStop(f) == f.kind = "chunk" /\ f.choices[1].finish_reason = Some("stop")

\* C24: in a stream whose upstream call succeeded every JSON chunk carries
\* the id "chatcmpl-123456789", the object tag "chat.completion.chunk", the
\* model label of the first chunk and one choice, of index 0; a fragment
\* chunk has a non-empty delta content and finish_reason null; finish_reason
\* "stop" is on the terminal chunk only, whose delta is empty, and once the
\* stream has run to its end it is on exactly one chunk.
C24_ChunksAreUniform ==
    \A r \in Reqs :
        (IsChat(r) /\ WantsStream(r) /\ UpstreamReturned(r)) =>
            LET fs == frames[r] IN
            /\ \A k \in Positions(fs, IsChunk) :
                   /\ fs[k].id = "chatcmpl-123456789"
                   /\ fs[k].object = "chat.completion.chunk"
                   /\ fs[k].model = fs[1].model
                   /\ Len(fs[k].choices) = 1
                   /\ fs[k].choices[1].index = 0
            /\ \A k \in Positions(fs, IsFragment) :
                   /\ FragmentContent(fs[k]) # <<>>
                   /\ fs[k].choices[1].finish_reason = None
            /\ \A k \in Positions(fs, SaysStop) : fs[k].choices[1].delta = None
            /\ Cardinality(Positions(fs, SaysStop)) <= 1
            /\ StreamSucceeded(r) =>
                   /\ Cardinality(Positions(fs, SaysStop)) = 1
                   /\ Positions(fs, SaysStop) = Positions(fs, IsTerminal)
                   /\ Positions(fs, IsChunk) = 1..(Len(fs) - 1)

\* A stream for a named model ran to its end with two fragments and the
\* terminal chunk, all three with that model.
C24_Witness ==
    \E r \in Reqs :
        /\ StreamSucceeded(r) /\ NamesModel(r)
        /\ Len(frames[r]) = 4
        /\ \A k \in 1..3 : IsChunk(frames[r][k]) /\ frames[r][k].model = raw[r].model[2]
        /\ SaysStop(frames[r][3])

IsFlag(arg) == Len(arg) > 0 /\ Head(arg) = "-"

\* The flag name of an argument: its text before the first "=".
NameOf(arg) ==
    LET eqs == {k \in 1..Len(arg) : arg[k] = "="}
    IN  IF eqs = {} THEN arg
        ELSE SubSeq(arg, 1, (CHOOSE k \in eqs : \A j \in eqs : k <= j) - 1)

UserNames == {NameOf(user_args[k]) : k \in {j \in 1..Len(user_args) : IsFlag(user_args[j])}}

\* The default flags no user flag names, and the value next to each.
KeptFlags ==
    {i \in 1..Len(default_args) :
        IsFlag(default_args[i]) /\ NameOf(default_args[i]) \notin UserNames}

KeptPositions ==
    KeptFlags \cup
    {i \in 2..Len(default_args) : i - 1 \in KeptFlags /\ ~IsFlag(default_args[i])}

\* The default arguments at the kept positions, in default order.
KeptDefaults ==
    [k \in 1..Cardinality(KeptPositions) |->
        default_args[CHOOSE i \in KeptPositions :
                         Cardinality({j \in KeptPositions : j <= i}) = k]]

\* C26: what merge_arguments returns is every user argument in its order,
\* then, in default order, exactly the default flags whose name (the text
\* before "=") no user flag has, each with the value that directly follows
\* it; no argument after the user arguments is a flag a user flag names;
\* and the copies of scripts/utils.py and scripts/docs.py return the same.
C26_UserArgumentsTakePrecedence ==
    /\ merged # None =>
           /\ merged[1] = user_args \o KeptDefaults
           /\ \A k \in (Len(user_args) + 1)..Len(merged[1]) :
                  IsFlag(merged[1][k]) => NameOf(merged[1][k]) \notin UserNames
    /\ docs_merged # None => docs_merged[1] = user_args \o KeptDefaults
    /\ (merged # None /\ docs_merged # None) => merged = docs_merged

\* "-a=x" given by the user replaced the default "-a x"; the default "-b"
\* was kept; both copies returned it.
C26_Witness ==
    /\ default_args = << <<"-", "a">>, <<"x">>, <<"-", "b">> >>
    /\ user_args = << <<"-", "a", "=", "x">> >>
    /\ merged = Some(<< <<"-", "a", "=", "x">>, <<"-", "b">> >>)
    /\ docs_merged = merged

====
